---- MODULE Spec2Model ----
(***************************************************************************)
(* Model of zotero_downloader.py (class ZoteroDownloader).                 *)
(*                                                                         *)
(* Strings are sequences of one-character strings.  The download          *)
(* directory is a function from file names to the content stored under    *)
(* each name.  Three specifications share the variables:                   *)
(*   SpecSan   sanitize_filename applied to a drawn title                  *)
(*   SpecScan  the scan loop of get_recent_items over a drawn feed         *)
(*   Spec      a whole run of download_recent_documents                    *)
(***************************************************************************)
EXTENDS Integers, Sequences, FiniteSets, TLC

VARIABLES
    pc,                    \* position of the running procedure
    filename,              \* sanitize_filename: its argument
    sanitized,             \* sanitize_filename: its return value
    items,                 \* the feed returned by zot.items(...)
    cutoff_date,           \* get_recent_items: datetime.now() - timedelta(days)
    i,                     \* get_recent_items: index of the loop over items
    recent_items,          \* get_recent_items: result list
    seen_keys,             \* get_recent_items: keys already appended
    inspected,             \* history: feed positions the loop body has run on
    item_idx,              \* download_recent_documents: index into recent_items
    link_only,             \* history: link-only attachments zot.children answered for the current item
    attachments,           \* get_item_attachments' result for the current item
    att_idx,               \* index of the inner loop over attachments
    files,                 \* download_dir: file name -> content
    existing,              \* history: the directory's files when the run started
    found,                 \* history: file attachments answered by zot.children so far
    total_downloads,       \* download_recent_documents counter
    successful_downloads   \* download_recent_documents counter

vars == <<pc, filename, sanitized, items, cutoff_date, i, recent_items, seen_keys,
          inspected, item_idx, link_only, attachments, att_idx,
          files, existing, found, total_downloads, successful_downloads>>

scanVars == <<items, cutoff_date, i, recent_items, seen_keys, inspected>>
runVars == <<item_idx, link_only, attachments, att_idx, files,
             existing, found, total_downloads, successful_downloads>>
sanVars == <<filename, sanitized>>

----------------------------------------------------------------------------
(* Bounds of the model *)

MaxAffix == 2      \* length of the drawn tail of a title
MaxFeed == 3       \* length of a drawn feed (SpecScan)
MaxRunFeed == 2    \* length of a drawn feed (Spec)
MaxChildren == 2   \* length of an answer of zot.children
MaxFiles == 2      \* file attachments answered by zot.children in one run

----------------------------------------------------------------------------
(* Strings *)

SeqsUpTo(S, n) == UNION {[1..k -> S] : k \in 0..n}

Repeat(c, n) == [k \in 1..n |-> c]

Min(S) == CHOOSE x \in S : \A y \in S : x <= y

(* str(counter): decimal digits of a natural number *)
RECURSIVE str(_)
str(n) ==
    LET digit == <<"0", "1", "2", "3", "4", "5", "6", "7", "8", "9">>
    IN  IF n < 10 THEN <<digit[n + 1]>>
        ELSE str(n \div 10) \o <<digit[(n % 10) + 1]>>

----------------------------------------------------------------------------
(* sanitize_filename *)

max_length == 200

invalid_chars == {"<", ">", ":", "\"", "|", "?", "*", "\\", "/"}

(* the characters regex class \s matches *)
whitespace == {" ", "\t", "\n", "\r"}

(* re.sub(r'[<>:"|?*\\/]', '_', filename) *)
SubInvalid(s) ==
    [k \in 1..Len(s) |-> IF s[k] \in invalid_chars THEN "_" ELSE s[k]]

(* variant: runs of underscores and whitespace are left as they are *)
NoCollapse(s) == s

(* re.sub(r'[_\s]+', '_', filename): every maximal run becomes one "_" *)
SubRuns(s) ==
    LET InRun(c) == c = "_" \/ c \in whitespace
        \* each character with whether it continues a run begun before it
        marked == [k \in 1..Len(s) |->
                     <<s[k], InRun(s[k]) /\ k > 1 /\ InRun(s[k - 1])>>]
        Starts(m) == ~m[2]
        kept == SelectSeq(marked, Starts)
    IN  [k \in 1..Len(kept) |-> IF InRun(kept[k][1]) THEN "_" ELSE kept[k][1]]

(* str.strip(chars) *)
strip(s, chars) ==
    LET keep == {k \in 1..Len(s) : s[k] \notin chars}
    IN  IF keep = {} THEN <<>>
        ELSE SubSeq(s, Min(keep), CHOOSE k \in keep : \A m \in keep : m <= k)

(* variant: no length limit *)
NoTruncate(s) == s

(* if len(filename) > max_length: filename = filename[:max_length] *)
Truncate(s) == IF Len(s) > max_length THEN SubSeq(s, 1, max_length) ELSE s

untitled == <<"u", "n", "t", "i", "t", "l", "e", "d">>

sanitize_filename(title) ==
    LET s1 == SubInvalid(title)
        s2 == SubRuns(s1)
        s3 == strip(s2, {" ", "."})
        s4 == Truncate(s3)
    IN  IF s4 = <<>> THEN untitled ELSE s4

----------------------------------------------------------------------------
(* SpecSan: sanitize_filename on a drawn title *)

TitleAlphabet == {"a", "?", " ", ".", "_"}

(* head, a run of "a" that is empty or reaches the truncation limit, tail *)
Titles ==
    {h \o Repeat("a", n) \o t :
        h \in {<<>>} \cup {<<c>> : c \in TitleAlphabet},
        t \in SeqsUpTo(TitleAlphabet, MaxAffix),
        n \in {0} \cup ((max_length - MaxAffix)..max_length)}
    \cup SeqsUpTo(invalid_chars \cup {"a"}, 2)

(* no run in progress *)
IdleRun ==
    /\ item_idx = 1 /\ link_only = 0 /\ attachments = <<>> /\ att_idx = 1
    /\ files = <<>> /\ existing = {}
    /\ found = 0 /\ total_downloads = 0 /\ successful_downloads = 0

(* no scan and no run in progress *)
Idle ==
    /\ items = <<>> /\ cutoff_date = 0 /\ i = 1
    /\ recent_items = <<>> /\ seen_keys = <<>> /\ inspected = {}
    /\ IdleRun

InitSan ==
    /\ pc = "sanitize"
    /\ filename \in Titles
    /\ sanitized = <<>>
    /\ Idle

SanitizeCall ==
    /\ pc = "sanitize"
    /\ sanitized' = sanitize_filename(filename)
    /\ pc' = "sanitized"
    /\ UNCHANGED <<filename, scanVars, runVars>>

NextSan == SanitizeCall

SpecSan == InitSan /\ [][NextSan]_vars

----------------------------------------------------------------------------
(* get_recent_items *)

(* A feed entry: item['key'], item['data']['dateAdded'], whether
   'parentItem' is in item['data'], item['data']['title'].  A dateAdded is
   missing (absent or ''), malformed (no ISO 8601 text) or ISO text of the
   naive time t. *)
Draft == <<"D", "r", "a", "f", "t">>

MyPaper == <<"M", "y", ":", " ", "P", "a", "p", "e", "r", "?", ".", "p", "d", "f">>

Keys == {"K1", "K2"}

Missing == [kind |-> "missing", t |-> 0]

Malformed == [kind |-> "malformed", t |-> 0]

Iso(t) == [kind |-> "iso", t |-> t]

Entry(k, d, p, title) == [key |-> k, dateAdded |-> d, parentItem |-> p, title |-> title]

(* datetime.fromisoformat(s.replace('Z', '+00:00')).replace(tzinfo=None):
   a ValueError (ok = FALSE) unless the text is ISO 8601; the value is the
   wall-clock time the text states, its UTC offset dropped, and is compared
   as such with cutoff_date, the local wall clock minus the days *)
fromisoformat(d) == [ok |-> d.kind = "iso", value |-> d.t]

(* variant: date_added > cutoff_date *)
LoopBodyStrictCutoff(st, item, cutoff) ==
    IF item.dateAdded.kind = "missing" THEN st
    ELSE LET parsed == fromisoformat(item.dateAdded)
         IN  IF ~parsed.ok THEN st
             ELSE IF parsed.value > cutoff
                  THEN IF ~item.parentItem /\ \A k \in 1..Len(st.seen_keys) :
                                                 st.seen_keys[k] # item.key
                       THEN [st EXCEPT !.seen_keys = Append(@, item.key),
                                       !.recent_items = Append(@, item)]
                       ELSE st
                  ELSE [st EXCEPT !.brk = TRUE]

(* variant: an entry below the cutoff is passed over, the loop goes on *)
LoopBodyNoBreak(st, item, cutoff) ==
    IF item.dateAdded.kind = "missing" THEN st
    ELSE LET parsed == fromisoformat(item.dateAdded)
         IN  IF ~parsed.ok THEN st
             ELSE IF parsed.value >= cutoff
                  THEN IF ~item.parentItem /\ \A k \in 1..Len(st.seen_keys) :
                                                 st.seen_keys[k] # item.key
                       THEN [st EXCEPT !.seen_keys = Append(@, item.key),
                                       !.recent_items = Append(@, item)]
                       ELSE st
                  ELSE st

(* variant: a ValueError ends the loop *)
LoopBodyAbortOnValueError(st, item, cutoff) ==
    IF item.dateAdded.kind = "missing" THEN st
    ELSE LET parsed == fromisoformat(item.dateAdded)
         IN  IF ~parsed.ok THEN [st EXCEPT !.brk = TRUE]
             ELSE IF parsed.value >= cutoff
                  THEN IF ~item.parentItem /\ \A k \in 1..Len(st.seen_keys) :
                                                 st.seen_keys[k] # item.key
                       THEN [st EXCEPT !.seen_keys = Append(@, item.key),
                                       !.recent_items = Append(@, item)]
                       ELSE st
                  ELSE [st EXCEPT !.brk = TRUE]

(* the body of the for loop over items; st holds recent_items, seen_keys
   and brk, set when the loop breaks *)
LoopBody(st, item, cutoff) ==
    IF item.dateAdded.kind = "missing" THEN st
    ELSE LET parsed == fromisoformat(item.dateAdded)
         IN  IF ~parsed.ok THEN st
             ELSE IF parsed.value >= cutoff
                  THEN IF ~item.parentItem /\ \A k \in 1..Len(st.seen_keys) :
                                                 st.seen_keys[k] # item.key
                       THEN [st EXCEPT !.seen_keys = Append(@, item.key),
                                       !.recent_items = Append(@, item)]
                       ELSE st
                  ELSE [st EXCEPT !.brk = TRUE]

(* the whole loop, from position k on *)
RECURSIVE ScanFrom(_, _, _, _)
ScanFrom(st, feed, k, cutoff) ==
    IF k > Len(feed) \/ st.brk THEN st
    ELSE ScanFrom(LoopBody(st, feed[k], cutoff), feed, k + 1, cutoff)

get_recent_items(feed, cutoff) ==
    ScanFrom([recent_items |-> <<>>, seen_keys |-> <<>>, brk |-> FALSE],
             feed, 1, cutoff).recent_items

----------------------------------------------------------------------------
(* SpecScan: the loop of get_recent_items, one iteration per step *)

Times == {1, 2}

ScanEntries ==
    {Entry(k, d, p, Draft) :
        k \in Keys, d \in {Missing, Malformed} \cup {Iso(t) : t \in Times},
        p \in BOOLEAN}

(* the feed [T0 > T1 > T2 > T3], scanned with the cutoff between T1 and T2 *)
ScenarioFeed ==
    <<Entry("K1", Iso(5), FALSE, Draft), Entry("K2", Iso(4), FALSE, Draft),
      Entry("K3", Iso(2), FALSE, Draft), Entry("K4", Iso(1), FALSE, Draft)>>

InitScan ==
    /\ pc = "scan"
    /\ \E input \in (SeqsUpTo(ScanEntries, MaxFeed) \X {2})
                        \cup {<<ScenarioFeed, 3>>} :
          /\ items = input[1]
          /\ cutoff_date = input[2]
    /\ i = 1 /\ recent_items = <<>> /\ seen_keys = <<>> /\ inspected = {}
    /\ filename = <<>> /\ sanitized = <<>>
    /\ IdleRun

ScanItem ==
    /\ pc = "scan"
    /\ i <= Len(items)
    /\ LET st == LoopBody([recent_items |-> recent_items, seen_keys |-> seen_keys,
                           brk |-> FALSE], items[i], cutoff_date)
       IN  /\ recent_items' = st.recent_items
           /\ seen_keys' = st.seen_keys
           /\ inspected' = inspected \cup {i}
           /\ IF st.brk THEN pc' = "scanned" /\ i' = i
                        ELSE pc' = "scan" /\ i' = i + 1
    /\ UNCHANGED <<items, cutoff_date, sanVars, runVars>>

ScanReturn ==
    /\ pc = "scan"
    /\ i > Len(items)
    /\ pc' = "scanned"
    /\ UNCHANGED <<sanVars, scanVars, runVars>>

NextScan == ScanItem \/ ScanReturn

SpecScan == InitScan /\ [][NextScan]_vars

----------------------------------------------------------------------------
(* get_item_attachments, get_file_extension, generate_unique_filename *)

ApplicationPdf ==
    <<"a", "p", "p", "l", "i", "c", "a", "t", "i", "o", "n", "/", "p", "d", "f">>

TextHtml == <<"t", "e", "x", "t", "/", "h", "t", "m", "l">>

(* att['data'].get(...) of a key the record does not carry *)
None == <<"None">>

(* child records zot.children answers with *)
PdfFile ==
    [itemType |-> "attachment", linkMode |-> "imported_file", contentType |-> ApplicationPdf]

HtmlSnapshot ==
    [itemType |-> "attachment", linkMode |-> "imported_url", contentType |-> TextHtml]

LinkOnly ==
    [itemType |-> "attachment", linkMode |-> "linked_url", contentType |-> ApplicationPdf]

Note == [itemType |-> "note", linkMode |-> "None", contentType |-> None]

UntypedFile ==
    [itemType |-> "attachment", linkMode |-> "imported_file", contentType |-> None]

ChildKinds == {PdfFile, HtmlSnapshot, LinkOnly, Note, UntypedFile}

(* children that are stored files, and children that are bare links *)
StoredFiles(answer) ==
    Cardinality({k \in 1..Len(answer) :
        /\ answer[k].itemType = "attachment"
        /\ answer[k].linkMode \in {"imported_file", "imported_url"}})

BareLinks(answer) ==
    Cardinality({k \in 1..Len(answer) :
        /\ answer[k].itemType = "attachment"
        /\ answer[k].linkMode \notin {"imported_file", "imported_url"}})

(* variant: the link mode is not looked at *)
IsAttachmentItem(att) == att.itemType = "attachment"

(* the condition of the list comprehension of get_item_attachments *)
IsFileAttachment(att) ==
    /\ att.itemType = "attachment"
    /\ att.linkMode \in {"imported_file", "imported_url"}

file_attachments(answer) == SelectSeq(answer, IsFileAttachment)

(* "pdf" in content_type *)
Contains(s, sub) ==
    \E k \in 1..(Len(s) - Len(sub) + 1) : SubSeq(s, k, k + Len(sub) - 1) = sub

get_file_extension(content_type) ==
    IF Contains(content_type, <<"p", "d", "f">>)
    THEN <<".", "p", "d", "f">>
    ELSE <<".", "h", "t", "m", "l">>

(* the while loop: the first counter whose name does not exist in dir *)
RECURSIVE Probe(_, _, _, _)
Probe(base_name, extension, dir, counter) ==
    LET name == base_name \o <<"_">> \o str(counter) \o extension
    IN  IF name \notin dir THEN name
        ELSE Probe(base_name, extension, dir, counter + 1)

(* variant: the name is returned without looking at the directory *)
NoExistsCheck(base_name, extension, dir) == base_name \o extension

(* variant: the counter starts at 0 *)
ProbeFromZero(base_name, extension, dir) ==
    IF base_name \o extension \notin dir THEN base_name \o extension
    ELSE Probe(base_name, extension, dir, 0)

(* dir: the names os.path.exists finds in download_dir *)
generate_unique_filename(base_name, extension, dir) ==
    IF base_name \o extension \notin dir THEN base_name \o extension
    ELSE Probe(base_name, extension, dir, 1)

----------------------------------------------------------------------------
(* Spec: a run of download_recent_documents *)

(* feeds of top-level entries within the window, the entry at position k
   having the key "K<k>" *)
RunFeeds ==
    {[k \in 1..Len(titles) |-> Entry("K" \o ToString(k), Iso(2), FALSE, titles[k])] :
        titles \in SeqsUpTo({Draft, MyPaper}, MaxRunFeed)}

(* names a previous run may have left in download_dir *)
LeftOver ==
    {Draft \o <<".", "p", "d", "f">>, Draft \o <<"_", "1", ".", "p", "d", "f">>}

OldContent == [item |-> "old", att |-> 0, type |-> None, complete |-> TRUE]

Init ==
    /\ pc = "start"
    /\ items \in RunFeeds
    /\ cutoff_date = 2
    /\ i = 1 /\ recent_items = <<>> /\ seen_keys = <<>> /\ inspected = {}
    /\ filename = <<>> /\ sanitized = <<>>
    /\ existing \in SUBSET LeftOver
    /\ files = [n \in existing |-> OldContent]
    /\ item_idx = 1 /\ link_only = 0 /\ attachments = <<>> /\ att_idx = 1
    /\ found = 0 /\ total_downloads = 0 /\ successful_downloads = 0

(* recent_items = self.get_recent_items(days); zot.items may raise *)
GetRecent ==
    /\ pc = "start"
    /\ \E fetched \in BOOLEAN :
          recent_items' = IF fetched THEN get_recent_items(items, cutoff_date) ELSE <<>>
    /\ pc' = IF recent_items' = <<>> THEN "none_found" ELSE "items"
    /\ UNCHANGED <<items, cutoff_date, i, seen_keys, inspected, sanVars, runVars>>

(* one iteration of the loop over recent_items, up to the inner loop:
   get_item_attachments answers the filtered children, or [] when
   zot.children raises *)
ProcessItem ==
    /\ pc = "items"
    /\ item_idx <= Len(recent_items)
    /\ \/ \E answer \in SeqsUpTo(ChildKinds, MaxChildren) :
             /\ found + StoredFiles(answer) <= MaxFiles
             /\ attachments' = file_attachments(answer)
             /\ found' = found + StoredFiles(answer)
             /\ link_only' = BareLinks(answer)
       \/ /\ attachments' = <<>>
          /\ link_only' = 0
          /\ UNCHANGED found
    /\ att_idx' = 1
    /\ IF attachments' = <<>>
       THEN pc' = "items" /\ item_idx' = item_idx + 1
       ELSE pc' = "attachments" /\ item_idx' = item_idx
    /\ UNCHANGED <<files, existing, total_downloads,
                   successful_downloads, sanVars, scanVars>>

(* variant: a failed download ends the run *)
NextAttachmentUnlessFailed ==
    IF successful_downloads' = successful_downloads
    THEN pc' = "aborted" /\ att_idx' = att_idx /\ item_idx' = item_idx
    ELSE IF att_idx < Len(attachments)
    THEN pc' = "attachments" /\ att_idx' = att_idx + 1 /\ item_idx' = item_idx
    ELSE pc' = "items" /\ att_idx' = att_idx /\ item_idx' = item_idx + 1

(* where the loops stand after the attachment at att_idx *)
NextAttachment ==
    IF att_idx < Len(attachments)
    THEN pc' = "attachments" /\ att_idx' = att_idx + 1 /\ item_idx' = item_idx
    ELSE pc' = "items" /\ att_idx' = att_idx /\ item_idx' = item_idx + 1

(* one iteration of the inner loop: total_downloads += 1 and
   download_attachment, whose try block may raise at get_file_extension,
   at zot.file, at open or at f.write *)
DownloadAttachment ==
    /\ pc = "attachments"
    /\ LET attachment == attachments[att_idx]
           parent_item == recent_items[item_idx]
           base_filename == sanitize_filename(parent_item.title)
       IN  /\ total_downloads' = total_downloads + 1
           /\ IF attachment.contentType = None
              THEN UNCHANGED <<files, successful_downloads>>
              ELSE LET file_extension == get_file_extension(attachment.contentType)
                       final_filename ==
                           generate_unique_filename(base_filename, file_extension,
                                                    DOMAIN files)
                       Content(whole) == [item |-> parent_item.key, att |-> att_idx,
                                          type |-> attachment.contentType,
                                          complete |-> whole]
                   IN  \* zot.file raises, or open raises: no file
                       \/ UNCHANGED <<files, successful_downloads>>
                       \* f.write raises: the file is left truncated
                       \/ /\ files' = (final_filename :> Content(FALSE)) @@ files
                          /\ UNCHANGED successful_downloads
                       \* the content is written
                       \/ /\ files' = (final_filename :> Content(TRUE)) @@ files
                          /\ successful_downloads' = successful_downloads + 1
    /\ NextAttachment
    /\ UNCHANGED <<attachments, existing, found, link_only, sanVars, scanVars>>

(* the loop over recent_items is over: the download summary is printed *)
Summary ==
    /\ pc = "items"
    /\ item_idx > Len(recent_items)
    /\ pc' = "summary"
    /\ UNCHANGED <<sanVars, scanVars, runVars>>

Next == GetRecent \/ ProcessItem \/ DownloadAttachment \/ Summary

Spec == Init /\ [][Next]_vars

----------------------------------------------------------------------------
(* Claims about sanitize_filename (SpecSan) *)

(* C9: for every title the output of sanitize_filename contains none of the
   reserved characters < > : " | ? * \ /, is non-empty, and has length at
   most 200 *)
C9_SanitizedSafe ==
    pc = "sanitized" =>
        /\ \A k \in 1..Len(sanitized) :
              sanitized[k] \notin {"<", ">", ":", "\"", "|", "?", "*", "\\", "/"}
        /\ Len(sanitized) >= 1
        /\ Len(sanitized) <= 200

(* a title with a reserved character, longer than the limit, was sanitized *)
C9_Witness ==
    /\ pc = "sanitized"
    /\ Len(filename) > 200
    /\ \E k \in 1..Len(filename) : filename[k] = "?"
    /\ Len(sanitized) = 200

(* C10: for every title the name returned by sanitize_filename neither
   begins nor ends with a space or a dot, also when the title is longer
   than the truncation limit *)
C10_Trimmed ==
    pc = "sanitized" =>
        /\ sanitized[1] \notin {" ", "."}
        /\ sanitized[Len(sanitized)] \notin {" ", "."}

----------------------------------------------------------------------------
(* Claims about get_recent_items (SpecScan) *)

Parseable(e) == e.dateAdded.kind = "iso"

(* every entry parseable, timestamps never increasing along the feed *)
DescendingFeed ==
    /\ \A k \in 1..Len(items) : Parseable(items[k])
    /\ \A k \in 1..Len(items) : \A m \in 1..Len(items) :
          k < m => items[k].dateAdded.t >= items[m].dateAdded.t

(* the entries of feed that are within the window and have no parent
   reference, in feed order, each key at its first such occurrence *)
WithinWindowTopLevel(feed, cutoff) ==
    LET Qualifies(e) == e.dateAdded.t >= cutoff /\ ~e.parentItem
        q == SelectSeq(feed, Qualifies)
        marked == [k \in 1..Len(q) |->
                     <<q[k], \E m \in 1..(k - 1) : q[m].key = q[k].key>>]
        First(m) == ~m[2]
        firsts == SelectSeq(marked, First)
    IN  [k \in 1..Len(firsts) |-> firsts[k][1]]

(* C2: for a feed of parseable timestamps in descending order,
   get_recent_items returns exactly the entries with timestamp >= cutoff
   and no parent reference, in feed order, each key once; for the feed
   [T0 > T1 > T2 > T3] with the cutoff between T1 and T2 the result is the
   entries at T0 and T1, in that order *)
C2_ExactSelection ==
    (pc = "scanned" /\ DescendingFeed) =>
        /\ recent_items = WithinWindowTopLevel(items, cutoff_date)
        /\ (items = ScenarioFeed /\ cutoff_date = 3) =>
              recent_items = <<ScenarioFeed[1], ScenarioFeed[2]>>

(* a descending feed with a child entry, a repeated key and an entry below
   the cutoff was scanned, and something was selected *)
C2_Witness ==
    /\ pc = "scanned" /\ DescendingFeed
    /\ Len(items) = 3
    /\ items[1].parentItem
    /\ items[2].key = items[1].key /\ ~items[2].parentItem
    /\ items[2].dateAdded.t = cutoff_date
    /\ items[3].dateAdded.t < cutoff_date
    /\ Len(recent_items) = 1

(* feed positions holding a parsed timestamp below the cutoff *)
BelowCutoff ==
    {k \in 1..Len(items) :
        Parseable(items[k]) /\ items[k].dateAdded.t < cutoff_date}

(* C3: the scan ends at the first entry whose parsed timestamp is below
   the cutoff: no entry after it is inspected or added to the result, even
   one whose own timestamp is within the window *)
C3_EarlyExit ==
    BelowCutoff # {} =>
        LET p == Min(BelowCutoff)
        IN  /\ \A k \in inspected : k <= p
            /\ Len(recent_items) <=
                  Cardinality({k \in 1..(p - 1) :
                      /\ Parseable(items[k])
                      /\ items[k].dateAdded.t >= cutoff_date
                      /\ ~items[k].parentItem})
            /\ pc = "scanned" => inspected = 1..p

(* an unsorted feed: a top-level entry within the window sits after an
   entry below the cutoff, and the scan has ended without selecting it *)
C3_Witness ==
    /\ pc = "scanned"
    /\ Len(items) = 2
    /\ Parseable(items[1]) /\ items[1].dateAdded.t < cutoff_date
    /\ Parseable(items[2]) /\ items[2].dateAdded.t >= cutoff_date
    /\ ~items[2].parentItem
    /\ recent_items = <<>>

(* C8: an entry whose creation timestamp cannot be parsed is skipped
   without aborting the scan: it is never in the result, and the entries
   after it are processed as if it were absent from the feed *)
C8_UnparseableSkipped ==
    pc = "scanned" =>
        /\ \A k \in 1..Len(recent_items) : Parseable(recent_items[k])
        /\ recent_items = get_recent_items(SelectSeq(items, Parseable), cutoff_date)

(* a malformed timestamp sits before an entry that was selected *)
C8_Witness ==
    /\ pc = "scanned"
    /\ Len(items) >= 2
    /\ items[1].dateAdded.kind = "malformed"
    /\ Len(recent_items) = 1
    /\ recent_items[1] = items[2]

----------------------------------------------------------------------------
(* Claims about a run of download_recent_documents (Spec) *)

Pdf == <<".", "p", "d", "f">>

WrittenNames == {n \in DOMAIN files : files[n] # OldContent}

(* C1: every successful download_attachment writes to a path that did not
   exist in the directory when its name was resolved: no two successful
   writes of the run go to the same path and no file that existed before a
   write is overwritten by it *)
C1_NoCollision ==
    /\ [][/\ \A n \in DOMAIN files : n \in DOMAIN files' /\ files'[n] = files[n]
          /\ successful_downloads' # successful_downloads =>
                \E n \in DOMAIN files' \ DOMAIN files :
                    /\ files'[n].complete
                    /\ files'[n].item = recent_items[item_idx].key
                    /\ files'[n].att = att_idx]_vars
    /\ [](/\ \A n \in existing : n \in DOMAIN files /\ files[n] = OldContent
          /\ Cardinality({n \in WrittenNames : files[n].complete})
                = successful_downloads)

(* two downloads succeeded in a directory that already held Draft.pdf, and
   the old file is still there *)
C1_Witness ==
    /\ pc = "summary"
    /\ Draft \o Pdf \in existing
    /\ successful_downloads = 2
    /\ \A n \in WrittenNames : Len(n) > Len(Draft) /\ SubSeq(n, 1, Len(Draft)) = Draft

(* C4: a file is written and a download counted only for a child whose
   item-kind is 'attachment' and whose link-mode is imported_file or
   imported_url; a link-only attachment or a non-attachment child never
   produces a write and is never counted as an attempted download *)
C4_OnlyStoredFiles ==
    /\ \A k \in 1..Len(attachments) :
          /\ attachments[k].itemType = "attachment"
          /\ attachments[k].linkMode \in {"imported_file", "imported_url"}
    /\ total_downloads <= found
    /\ Cardinality(WrittenNames) <= total_downloads

(* an item answered a stored file and a bare link; one download was
   attempted and one file written *)
C4_Witness ==
    /\ pc = "summary"
    /\ Len(recent_items) = 1
    /\ link_only = 1 /\ found = 1
    /\ total_downloads = 1
    /\ Cardinality(WrittenNames) = 1

(* C5: a children-fetch failure for one entry or a content-fetch or write
   failure for one attachment never stops the run: every file attachment
   of every selected entry is attempted exactly once, in order, whatever
   the earlier outcomes, each failure counts as a failed download, and the
   run reaches its summary with attempted = successes + failures *)
C5_FailuresDoNotStop ==
    /\ [](/\ pc \in {"summary", "none_found"} \/ ENABLED Next
          /\ pc = "attachments" =>
                /\ item_idx <= Len(recent_items)
                /\ att_idx <= Len(attachments)
                /\ total_downloads = found - (Len(attachments) - att_idx + 1)
          /\ pc = "items" =>
                /\ item_idx <= Len(recent_items) + 1
                /\ total_downloads = found
          /\ pc = "summary" =>
                /\ item_idx = Len(recent_items) + 1
                /\ total_downloads = found
                /\ Cardinality({n \in WrittenNames : files[n].complete})
                      = successful_downloads
                /\ total_downloads - successful_downloads >= 0
          /\ pc = "none_found" => recent_items = <<>>)
    /\ [][total_downloads' # total_downloads =>
            /\ total_downloads' = total_downloads + 1
            /\ successful_downloads' \in
                  {successful_downloads, successful_downloads + 1}]_vars

(* the summary was reached after two attempts, the first of which failed
   leaving a truncated file and the second of which succeeded *)
C5_Witness ==
    /\ pc = "summary"
    /\ total_downloads = 2 /\ successful_downloads = 1
    /\ \E n \in WrittenNames : ~files[n].complete /\ files[n].item = "K1"
    /\ \E n \in WrittenNames : files[n].complete /\ files[n].item = "K2"

(* the run of the scenario: an empty directory, one entry titled
   `My: Paper?.pdf` with one PDF stored attachment and one link-only
   attachment, downloaded successfully *)
PaperScenario ==
    /\ pc = "summary"
    /\ items = <<Entry("K1", Iso(2), FALSE, MyPaper)>>
    /\ existing = {}
    /\ attachments = <<PdfFile>> /\ link_only = 1 /\ found = 1
    /\ successful_downloads = 1

(* C6 as stated: in the scenario exactly one file is written and it is
   named `My__Paper_.pdf` *)
C6_AsStated ==
    PaperScenario =>
        /\ DOMAIN files =
              {<<"M", "y", "_", "_", "P", "a", "p", "e", "r", "_", ".", "p", "d", "f">>}
        /\ total_downloads = 1

(* C6 amended: in the scenario exactly one file is written and it is named
   `My_Paper_.pdf.pdf`: the sanitized title `My_Paper_.pdf` followed by the
   extension `.pdf`; the link-only attachment produces no write *)
C6_OneFileWritten ==
    PaperScenario =>
        /\ DOMAIN files =
              {<<"M", "y", "_", "P", "a", "p", "e", "r", "_", ".", "p", "d", "f",
                 ".", "p", "d", "f">>}
        /\ total_downloads = 1

C6_Witness == PaperScenario /\ Cardinality(DOMAIN files) = 1

(* base_k + ext *)
Numbered(base, k, ext) == base \o <<"_">> \o str(k) \o ext

(* base+ext when unused in dir, else base_k+ext for the smallest k >= 1
   whose name is unused in dir *)
FirstUnused(base, ext, dir) ==
    IF base \o ext \notin dir THEN base \o ext
    ELSE Numbered(base,
                  Min({k \in 1..(Cardinality(dir) + 1) : Numbered(base, k, ext) \notin dir}),
                  ext)

(* C7: generate_unique_filename returns base+ext when no file of that name
   exists, otherwise base_k+ext for the smallest k >= 1 whose name is
   unused; so a name it returned and that was created is never returned
   again, and two entries titled `Draft` with PDF attachments processed
   into an empty directory yield `Draft.pdf` then `Draft_1.pdf` *)
C7_UniqueName ==
    /\ [][pc = "attachments" =>
            /\ files' # files => DOMAIN files' # DOMAIN files
            /\ \A n \in DOMAIN files' \ DOMAIN files :
                  n = FirstUnused(sanitize_filename(recent_items[item_idx].title),
                                  get_file_extension(attachments[att_idx].contentType),
                                  DOMAIN files)]_vars
    /\ []((/\ pc = "summary"
           /\ Len(items) = 2 /\ items[1].title = Draft /\ items[2].title = Draft
           /\ existing = {}
           /\ total_downloads = 2 /\ successful_downloads = 2
           /\ \A n \in DOMAIN files : files[n].type = ApplicationPdf)
          => /\ DOMAIN files = {Draft \o Pdf, Draft \o <<"_", "1">> \o Pdf}
             /\ \/ files[Draft \o Pdf].item = "K1" /\ files[Draft \o <<"_", "1">> \o Pdf].item = "K2"
                \/ /\ files[Draft \o Pdf].item = files[Draft \o <<"_", "1">> \o Pdf].item
                   /\ files[Draft \o Pdf].att < files[Draft \o <<"_", "1">> \o Pdf].att)

(* two entries titled Draft were downloaded into a directory holding
   Draft.pdf and Draft_1.pdf: the counter went past the names in use *)
C7_Witness ==
    /\ pc = "summary"
    /\ Len(items) = 2 /\ items[1].title = Draft /\ items[2].title = Draft
    /\ existing = {Draft \o Pdf, Draft \o <<"_", "1">> \o Pdf}
    /\ Draft \o <<"_", "2">> \o Pdf \in DOMAIN files
    /\ Draft \o <<"_", "3">> \o Pdf \in DOMAIN files
    /\ files[Draft \o <<"_", "2">> \o Pdf].item = "K1"
    /\ files[Draft \o <<"_", "3">> \o Pdf].item = "K2"

====
